---- MODULE Spec2Model ----
(***************************************************************************)
(* Model of the wasit authorization control plane:                         *)
(*   - the admin router of infra/lambda/auth/index.js (latest revision),   *)
(*     one action per awaited collaborator call of each handler path;      *)
(*   - the identity provider (Cognito user pool) and the users_state       *)
(*     table it talks to, as shared state;                                 *)
(*   - the bearer-token auth-context resolver of packages/authz.           *)
(* Strings that the code trims / lower-cases are sequences of characters.  *)
(***************************************************************************)
EXTENDS Integers, Sequences, FiniteSets, TLC

\* ------------------------------------------------------------------ bounds
MaxRequests == 2
MaxFaults == 1
MaxGrants == 2
MaxNames == 2
MaxBody == 3

\* --------------------------------------------------------------- constants
PLATFORM_ADMIN_GROUP == "PlatformAdmin"
ROLE_GROUPS == <<"PlatformAdmin", "InternalOps", "Seller">>
USER_STATES == <<"ACTIVE", "SUSPENDED", "DISABLED">>
SampleLimit == 60
ListLimitMax == 60
ListLimitDefault == 25
\* a pool group that is not a role group
OTHER_GROUP == "Beta"

\* --------------------------------------------------------- string helpers
Range(s) == {s[i] : i \in 1..Len(s)}

ToLowerChar(c) ==
  CASE c = "A" -> "a"
    [] c = "B" -> "b"
    [] c = "C" -> "c"
    [] c = "X" -> "x"
    [] OTHER -> c

RECURSIVE toLowerCase(_)
toLowerCase(s) ==
  IF s = <<>> THEN <<>> ELSE <<ToLowerChar(Head(s))>> \o toLowerCase(Tail(s))

RECURSIVE trimStart(_)
trimStart(s) ==
  IF s # <<>> /\ Head(s) = " " THEN trimStart(Tail(s)) ELSE s

RECURSIVE trimEnd(_)
trimEnd(s) ==
  IF s # <<>> /\ s[Len(s)] = " " THEN trimEnd(SubSeq(s, 1, Len(s) - 1)) ELSE s

trim(s) == trimEnd(trimStart(s))

\* The empty sequence stands for null / undefined / "".
normalizeEmail(v) ==
  IF v = <<>> THEN <<>>
  ELSE LET s == toLowerCase(trim(v))
       IN IF "@" \notin Range(s) THEN <<>> ELSE s

toUpperCase(v) ==
  CASE v = "active" -> "ACTIVE"
    [] v = "suspended" -> "SUSPENDED"
    [] v = "disabled" -> "DISABLED"
    [] OTHER -> v

\* "" stands for null / undefined.
normalizeState(v) ==
  IF v = "" THEN ""
  ELSE LET s == toUpperCase(v)
       IN IF s \notin Range(USER_STATES) THEN "" ELSE s

\* Array.from(new Set(arr.map(String).map(trim).filter(Boolean)))
RECURSIVE uniq(_)
uniq(arr) ==
  IF arr = <<>> THEN <<>>
  ELSE LET init == uniq(SubSeq(arr, 1, Len(arr) - 1))
           x == arr[Len(arr)]
       IN IF x = "" \/ x \in Range(init) THEN init ELSE Append(init, x)

\* Body group fields are native arrays here: [def |-> FALSE] is undefined.
normalizeGroups(v) ==
  IF ~v.def THEN <<>> ELSE SelectSeq(v.val, LAMBDA x : x # "")

Invalid(groups) == SelectSeq(groups, LAMBDA g : g \notin Range(ROLE_GROUPS))

\* ------------------------------------------------------------- the world
A == <<"a", "@", "x">>
B == <<"b", "@", "x">>
C == <<"c", "@", "x">>
Emails == {A, B, C}
SubB == <<"u", "-", "b">>
Signup == <<"cognito-signup">>

NoUser == [exists |-> FALSE, username |-> <<>>, enabled |-> FALSE, groups |-> {}]
NoRow == [exists |-> FALSE, state |-> "", groups |-> {}, createdBy |-> <<>>,
          lastReason |-> "", createdAt |-> 0]

Slots == {1, 2}

\* Access tokens issued before the run starts; they stay valid through it.
TokA == [sub |-> "sub-a", email |-> A, groups |-> <<"PlatformAdmin">>]
TokSeller == [sub |-> "sub-b", email |-> B, groups |-> <<"Seller", "">>]
TokNoSub == [sub |-> "", email |-> A, groups |-> <<"PlatformAdmin">>]
TokNoEmail == [sub |-> "sub-n", email |-> <<>>, groups |-> <<"PlatformAdmin">>]
TokAnon == [sub |-> "", email |-> <<>>, groups |-> <<>>]
Tokens == {TokA, TokSeller, TokNoSub, TokNoEmail, TokAnon}

RawEmails == {A, <<" ", "B", "@", "x">>, C, <<"c", "x">>, <<>>}
RawStates == {"ACTIVE", "SUSPENDED", "disabled", "BANNED"}
RawLimits == {"", "0", "999"}
Undef == [def |-> FALSE, val |-> <<>>]
Arr(s) == [def |-> TRUE, val |-> s]
NoBody == [set |-> Undef, add |-> Undef, remove |-> Undef]
GroupBodies ==
  { [set |-> Arr(<<"Seller">>), add |-> Undef, remove |-> Undef],
    [set |-> Arr(<<"PlatformAdmin", "Seller">>), add |-> Undef, remove |-> Undef],
    [set |-> Arr(<<>>), add |-> Undef, remove |-> Undef],
    [set |-> Arr(<<"Bogus">>), add |-> Undef, remove |-> Undef],
    [set |-> Undef, add |-> Arr(<<"Seller", "">>), remove |-> Arr(<<"PlatformAdmin">>)],
    [set |-> Undef, add |-> Arr(<<"PlatformAdmin">>), remove |-> Undef] }
CreateGroups == {Undef, Arr(<<"Seller">>), Arr(<<"PlatformAdmin">>), Arr(<<"Bogus">>)}
Routes == {"create", "list", "groups", "state", "delete"}

\* The events a client can send: method + path, the gateway-injected claims,
\* and the body / query fields the route reads.
Event(route, tok, em, st, body, cg, lim) ==
  [route |-> route, tok |-> tok, email |-> em, state |-> st, body |-> body,
   groups |-> cg, limit |-> lim]

Events ==
  { Event("create", tok, em, "", NoBody, cg, "") :
      tok \in Tokens, em \in RawEmails, cg \in CreateGroups } \cup
  { Event("list", tok, <<>>, "", NoBody, Undef, lim) :
      tok \in Tokens, lim \in RawLimits } \cup
  { Event("groups", tok, em, "", body, Undef, "") :
      tok \in Tokens, em \in RawEmails, body \in GroupBodies } \cup
  { Event("state", tok, em, st, NoBody, Undef, "") :
      tok \in Tokens, em \in RawEmails, st \in RawStates } \cup
  { Event("delete", tok, em, "", NoBody, Undef, "") :
      tok \in Tokens, em \in RawEmails }

VARIABLES
  idp,         \* identity provider: email attribute -> user
  usersState,  \* users_state table: email of pk USER#<email> -> row
  pc,          \* per request slot: position in the handler
  req,         \* per request slot: the event being handled
  loc,         \* per request slot: the handler's local variables
  resp,        \* per request slot: the response returned
  started,     \* number of requests begun
  faults,      \* number of collaborator failures injected
  authzState,  \* table opts.usersStateTable as the resolver reads it: key -> state
  authzCaps,   \* table opts.authzCapabilitiesTable: group -> capability set
  authzGrants, \* table opts.authzGrantsTable: set of grant items
  rz,          \* the auth-context resolution in progress and its outcome
  lib          \* the library or trigger call in progress and its outcome

avars == <<idp, usersState, pc, req, loc, resp>>
rvars == <<authzState, authzCaps, authzGrants, rz, lib>>
vars == <<idp, usersState, pc, req, loc, resp, started, faults,
          authzState, authzCaps, authzGrants, rz, lib>>

NoEns == [email |-> <<>>, state |-> "", groups |-> Undef, actor |-> <<>>,
          reason |-> "", catch |-> FALSE, now |-> 0]
LocInit == [email |-> <<>>, state |-> "", user |-> <<>>, desired |-> <<>>,
            toRemove |-> <<>>, toAdd |-> <<>>, ens |-> NoEns, ret |-> "",
            rowState |-> "", users |-> <<>>, final |-> 0,
            callerState |-> "", prior |-> "", priorRow |-> NoRow,
            out |-> <<>>, mark |-> 0, rowSeen |-> FALSE]
NoReq == [route |-> "", tok |-> TokNoSub, email |-> <<>>, state |-> "",
          body |-> NoBody, groups |-> Undef, limit |-> ""]
NoResp == [status |-> 0, error |-> ""]

\* Subjects (claims.sub) the bearer tokens below are issued for.
Subs == {"sub-a", "sub-b"}
NoPrincipal == [present |-> FALSE, userId |-> "", email |-> <<>>, groups |-> <<>>]
NoLib == [op |-> "", phase |-> "idle"]
NoRz == [phase |-> "idle", required |-> FALSE, header |-> "", principal |-> NoPrincipal,
         state |-> "", capabilities |-> {}, grants |-> {}, outcome |-> "", error |-> "",
         status |-> 0]

\* ------------------------------------------------------------------ Init
\* Worlds the run can start in.  a@x was created through POST /admin/users
\* by b@x (Username = email); b@x signed up (Username is the pool's own
\* identifier); c@x does not exist.  In the second world b was disabled
\* through PATCH /admin/users/state.  In the third world a's admin group was
\* replaced by Seller after a's token was issued, b predates the users_state
\* table, and a row for c@x was left behind by an earlier deletion.
Row(state, groups, createdBy, lastReason) ==
  [exists |-> TRUE, state |-> state, groups |-> groups, createdBy |-> createdBy,
   lastReason |-> lastReason, createdAt |-> 0]
SignupRow(s) == Row(s, {}, Signup, IF s = "ACTIVE" THEN "SELF_SIGNUP" ELSE "STATE_UPDATED")
CreatedRow(groups, lastReason) == Row("ACTIVE", groups, B, lastReason)
StaleRow == Row("SUSPENDED", {}, A, "STATE_UPDATED")
User(username, enabled, groups) ==
  [exists |-> TRUE, username |-> username, enabled |-> enabled, groups |-> groups]
World(ua, ub, ra, rb, rc) ==
  [idp |-> [e \in Emails |-> IF e = A THEN ua ELSE IF e = B THEN ub ELSE NoUser],
   usersState |-> [e \in Emails |-> IF e = A THEN ra ELSE IF e = B THEN rb ELSE rc]]
InitWorlds ==
  { World(User(A, TRUE, {"PlatformAdmin"}), User(SubB, TRUE, {"PlatformAdmin"}),
          CreatedRow({"PlatformAdmin"}, "USER_CREATED"), SignupRow("ACTIVE"), NoRow),
    World(User(A, TRUE, {"PlatformAdmin"}), User(SubB, FALSE, {"Seller", OTHER_GROUP}),
          CreatedRow({"PlatformAdmin"}, "USER_CREATED"), SignupRow("DISABLED"), NoRow),
    World(User(A, TRUE, {"Seller"}), User(SubB, TRUE, {"PlatformAdmin"}),
          CreatedRow({"Seller"}, "GROUPS_UPDATED"), NoRow, StaleRow) }

Init ==
  /\ \E w \in InitWorlds : idp = w.idp /\ usersState = w.usersState
  /\ pc = [r \in Slots |-> "idle"]
  /\ req = [r \in Slots |-> NoReq]
  /\ loc = [r \in Slots |-> LocInit]
  /\ resp = [r \in Slots |-> NoResp]
  /\ started = 0
  /\ faults = 0
  /\ authzState = [k \in Subs |-> ""]
  /\ authzCaps = [g \in {} |-> {}]
  /\ authzGrants = {}
  /\ rz = NoRz
  /\ lib = NoLib

\* ------------------------------------------------- collaborator plumbing
CanFault == faults < MaxFaults
Fault == faults' = faults + 1
NoFault == faults' = faults

\* json(status, body) / toHttpErrorResponse(err): the request ends.
Respond(r, status, error) ==
  /\ resp' = [resp EXCEPT ![r] = [status |-> status, error |-> error]]
  /\ pc' = [pc EXCEPT ![r] = "done"]
  /\ loc' = [loc EXCEPT ![r] = [LocInit EXCEPT !.callerState = loc[r].callerState,
                                               !.prior = loc[r].prior,
                                               !.priorRow = loc[r].priorRow,
                                               !.out = loc[r].out]]
  /\ req' = req

\* A cognitoCall / ddbCall rejects: the error has statusCode 500 but is not an
\* AuthzError, so toHttpErrorResponse answers 500 INTERNAL.
Throw(r) == Respond(r, 500, "INTERNAL")

\* The user whose Username is u, as a set of email keys (empty if none).
ByUsername(u) == {e \in Emails : idp[e].exists /\ idp[e].username = u}

\* The state stored for an email when a request arrives (history only).
StoredState(email) ==
  IF email \in Emails /\ usersState[email].exists THEN usersState[email].state ELSE ""

\* The row stored for an email when a request arrives (history only).
StoredRow(email) == IF email \in Emails THEN usersState[email] ELSE NoRow

\* ------------------------------------------------------------ getPrincipal
principalGroups(tok) == SelectSeq(tok.groups, LAMBDA x : x # "")
hasGroup_AnyRole(tok, group) == Range(principalGroups(tok)) \cap Range(ROLE_GROUPS) # {}

hasGroup(tok, group) == group \in Range(principalGroups(tok))

\* --------------------------------------------------------------- handler
\* handler entry: getPrincipal, requireGroup and the synchronous head of
\* requireActiveCaller, up to its first awaited store call.
Reject(r, ev, status, error) ==
  /\ resp' = [resp EXCEPT ![r] = [status |-> status, error |-> error]]
  /\ pc' = [pc EXCEPT ![r] = "done"]
  /\ req' = [req EXCEPT ![r] = [NoReq EXCEPT !.route = ev.route, !.tok = ev.tok]]
  /\ UNCHANGED loc

BeginWith(r, events) ==
  /\ pc[r] = "idle"
  /\ UNCHANGED rvars
  /\ started < MaxRequests
  /\ started' = started + 1
  /\ UNCHANGED <<idp, usersState, faults>>
  /\ \E ev \in events :
       IF ev.tok.sub = ""
       THEN Reject(r, ev, 401, "UNAUTHENTICATED")
       ELSE IF ~hasGroup(ev.tok, PLATFORM_ADMIN_GROUP)
       THEN Reject(r, ev, 403, "FORBIDDEN")
       ELSE IF normalizeEmail(ev.tok.email) = <<>>
       THEN Reject(r, ev, 500, "INTERNAL")  \* plain Error with statusCode 401
       ELSE /\ UNCHANGED resp
            /\ req' = [req EXCEPT ![r] = ev]
            /\ pc' = [pc EXCEPT ![r] = "ensPut"]
            /\ loc' = [loc EXCEPT ![r] =
                 [LocInit EXCEPT
                    !.ens = [email |-> normalizeEmail(ev.tok.email),
                             state |-> "ACTIVE", groups |-> Undef,
                             actor |-> normalizeEmail(ev.tok.email),
                             reason |-> "SELF_HEAL_CALLER", catch |-> FALSE,
                             now |-> r],
                    !.ret = "gated",
                    !.callerState = StoredState(normalizeEmail(ev.tok.email)),
                    !.prior = StoredState(normalizeEmail(ev.email)),
                    !.priorRow = StoredRow(normalizeEmail(ev.email))]]

Begin(r) == BeginWith(r, Events)

\* The invocation has returned its response; the slot is free again.
Return(r) ==
  /\ pc[r] = "done"
  /\ UNCHANGED rvars
  /\ pc' = [pc EXCEPT ![r] = "idle"]
  /\ resp' = [resp EXCEPT ![r] = NoResp]
  /\ req' = [req EXCEPT ![r] = NoReq]
  /\ loc' = [loc EXCEPT ![r] = LocInit]
  /\ UNCHANGED <<idp, usersState, started, faults>>

Goto(r, label) == pc' = [pc EXCEPT ![r] = label]

\* ------------------------------------------------------- ensureUserState
\* Item of the conditional PutItem (attribute_not_exists(pk)).
PutItemRow(ens) ==
  [exists |-> TRUE,
   state |-> IF ens.state # "" THEN ens.state ELSE "ACTIVE",
   groups |-> IF ens.groups.def /\ ens.groups.val # <<>>
              THEN Range(uniq(ens.groups.val)) ELSE {},
   createdBy |-> ens.actor,
   lastReason |-> ens.reason,
   createdAt |-> ens.now]

ConditionalPut_Overwrite(row, ens) == PutItemRow(ens)

\* The table's conditional write: an existing row wins (ConditionalCheckFailed).
ConditionalPut(row, ens) == IF row.exists THEN row ELSE PutItemRow(ens)

\* UpdateItem SET ...: an upsert of the provided fields.
UpdateItemRow(row, ens) ==
  [exists |-> TRUE,
   state |-> IF ens.state # "" THEN ens.state ELSE row.state,
   groups |-> IF ens.groups.def THEN Range(uniq(ens.groups.val)) ELSE row.groups,
   createdBy |-> row.createdBy,
   lastReason |-> IF ens.reason # "" THEN ens.reason ELSE row.lastReason,
   createdAt |-> row.createdAt]

\* The table rejects an empty string set ({SS: []}): ValidationException.
UpdateRejected(ens) == ens.groups.def /\ uniq(ens.groups.val) = <<>>

\* getUserState(email)?.state ?? null
getUserState(email) == IF usersState[email].exists THEN usersState[email].state ELSE ""

\* ensureUserState, first await: PutItem if missing.
EnsPut(r) ==
  /\ pc[r] = "ensPut"
  /\ UNCHANGED rvars
  /\ UNCHANGED <<idp, started>>
  /\ \/ /\ NoFault
        /\ usersState' = [usersState EXCEPT ![loc[r].ens.email] =
                            ConditionalPut(@, loc[r].ens)]
        /\ Goto(r, "ensUpd")
        /\ UNCHANGED <<loc, resp, req>>
     \/ /\ CanFault /\ Fault
        /\ UNCHANGED usersState
        /\ IF loc[r].ens.catch
           THEN Goto(r, loc[r].ret) /\ UNCHANGED <<loc, resp, req>>
           ELSE Throw(r)

\* ensureUserState, second await: UpdateItem(...).catch(() => {}).
EnsUpd(r) ==
  /\ pc[r] = "ensUpd"
  /\ UNCHANGED rvars
  /\ UNCHANGED <<idp, req, started, loc, resp>>
  /\ Goto(r, "ensGet")
  /\ \/ /\ NoFault
        /\ usersState' =
             IF UpdateRejected(loc[r].ens) THEN usersState
             ELSE [usersState EXCEPT ![loc[r].ens.email] = UpdateItemRow(@, loc[r].ens)]
     \/ /\ CanFault /\ Fault
        /\ UNCHANGED usersState

\* ensureUserState, third await: getUserState(email).catch(() => null).
EnsGet(r) ==
  /\ pc[r] = "ensGet"
  /\ UNCHANGED rvars
  /\ UNCHANGED <<idp, usersState, req, started, resp>>
  /\ Goto(r, loc[r].ret)
  /\ \/ /\ NoFault
        /\ loc' = [loc EXCEPT ![r].rowState = getUserState(loc[r].ens.email)]
     \/ /\ CanFault /\ Fault
        /\ loc' = [loc EXCEPT ![r].rowState = ""]

\* requireActiveCaller after its ensureUserState, then route dispatch.
EntryOf(route) ==
  CASE route = "create" -> "crFind"
    [] route = "list" -> "lsList"
    [] route = "groups" -> "grFind"
    [] route = "state" -> "stFind"
    [] route = "delete" -> "dlFind"

Gated(r) ==
  /\ pc[r] = "gated"
  /\ UNCHANGED rvars
  /\ UNCHANGED <<idp, usersState, started, faults>>
  /\ IF loc[r].rowState # "ACTIVE"
     THEN Throw(r)   \* plain Error carrying statusCode 403: not an AuthzError
     ELSE Goto(r, EntryOf(req[r].route)) /\ UNCHANGED <<loc, resp, req>>

\* --------------------------------------------------------- shared helpers
findUserByEmail_ByUsername(email) ==
  IF email \in Emails /\ idp[email].exists /\ idp[email].username = email
  THEN idp[email].username ELSE <<>>

\* findUserByEmail: ListUsers with Filter email = "...", Limit 1.
findUserByEmail(email) ==
  IF email \in Emails /\ idp[email].exists THEN idp[email].username ELSE <<>>

\* enrichUser(username) for the response body, then json(final, ...).
Enrich(r) ==
  /\ pc[r] = "enrich"
  /\ UNCHANGED rvars
  /\ UNCHANGED <<idp, usersState, started>>
  /\ \/ /\ NoFault
        /\ IF ByUsername(loc[r].user) = {}
           THEN Throw(r)   \* AdminGetUser: UserNotFoundException
           ELSE Respond(r, loc[r].final, "")
     \/ /\ CanFault /\ Fault
        /\ Throw(r)

\* ------------------------------------------------ PATCH /admin/users/state
StFind(r) ==
  /\ pc[r] = "stFind"
  /\ UNCHANGED rvars
  /\ UNCHANGED <<idp, usersState, started>>
  /\ LET email == normalizeEmail(req[r].email)
         state == normalizeState(req[r].state)
     IN IF email = <<>> \/ state = ""
        THEN NoFault /\ Respond(r, 400, "BAD_REQUEST")
        ELSE \/ /\ NoFault
                /\ IF findUserByEmail(email) = <<>>
                   THEN Respond(r, 404, "NOT_FOUND")
                   ELSE /\ Goto(r, "stIdp")
                        /\ loc' = [loc EXCEPT ![r].email = email, ![r].state = state,
                                              ![r].user = findUserByEmail(email)]
                        /\ UNCHANGED <<resp, req>>
             \/ /\ CanFault /\ Fault
                /\ Throw(r)

\* The identity-provider side of a state transition: the login capability
\* after AdminDisableUser / AdminEnableUser, or untouched for SUSPENDED.
IdpEnabledFor(state, enabled) ==
  IF state = "DISABLED" THEN FALSE
  ELSE IF state = "ACTIVE" THEN TRUE
  ELSE enabled

StateEnsureArgs(r) ==
  [email |-> loc[r].email, state |-> loc[r].state, groups |-> Undef,
   actor |-> req[r].tok.email, reason |-> "STATE_UPDATED", catch |-> FALSE,
   now |-> r]

StIdp(r) ==
  /\ pc[r] = "stIdp"
  /\ UNCHANGED rvars
  /\ UNCHANGED <<usersState, started>>
  /\ IF loc[r].state = "SUSPENDED"
     THEN /\ NoFault
          /\ UNCHANGED <<idp, resp, req>>
          /\ Goto(r, "ensPut")
          /\ loc' = [loc EXCEPT ![r].ens = StateEnsureArgs(r), ![r].ret = "enrich",
                                ![r].final = 200]
     ELSE \/ /\ NoFault
             /\ IF ByUsername(loc[r].user) = {}
                THEN UNCHANGED idp /\ Throw(r)
                ELSE /\ idp' = [e \in Emails |->
                          IF e \in ByUsername(loc[r].user)
                          THEN [idp[e] EXCEPT !.enabled =
                                  IdpEnabledFor(loc[r].state, idp[e].enabled)]
                          ELSE idp[e]]
                     /\ Goto(r, "ensPut")
                     /\ loc' = [loc EXCEPT ![r].ens = StateEnsureArgs(r),
                                           ![r].ret = "enrich", ![r].final = 200]
                     /\ UNCHANGED <<resp, req>>
          \/ /\ CanFault /\ Fault
             /\ UNCHANGED idp
             /\ Throw(r)

\* -------------------------------------------------- setGroupsByUsername
\* listGroupsForUser returns the groups in the provider's listing order,
\* fixed here to the order of ROLE_GROUPS.
Listed(S) == SelectSeq(ROLE_GROUPS, LAMBDA g : g \in S)

groupsOf(username) ==
  IF ByUsername(username) = {} THEN {}
  ELSE idp[CHOOSE e \in ByUsername(username) : TRUE].groups

\* listGroupsForUser: every group of the user, role group or not
listGroupsForUser(username) ==
  LET S == groupsOf(username)
  IN Listed(S) \o SelectSeq(<<OTHER_GROUP>>, LAMBDA g : g \in S)

\* desired.filter(g => !current.includes(g))
ToAdd(desired, current) ==
  SelectSeq(SelectSeq(uniq(desired), LAMBDA g : g \in Range(ROLE_GROUPS)),
            LAMBDA g : g \notin current)

ToRemove_Nothing(desired, current) == <<>>

\* current.filter(g => ROLE_GROUPS.includes(g) && !desired.includes(g))
ToRemove(desired, current) ==
  SelectSeq(Listed(current), LAMBDA g : g \notin Range(desired))

\* setGroupsByUsername, first await: listGroupsForUser(username).
SgList(r) ==
  /\ pc[r] = "sgList"
  /\ UNCHANGED rvars
  /\ UNCHANGED <<idp, usersState, started>>
  /\ \/ /\ NoFault
        /\ IF ByUsername(loc[r].user) = {}
           THEN Throw(r)
           ELSE LET current == groupsOf(loc[r].user)
                    toAdd == ToAdd(loc[r].desired, current)
                    toRemove == ToRemove(loc[r].desired, current)
                IN /\ loc' = [loc EXCEPT ![r].toAdd = toAdd, ![r].toRemove = toRemove]
                   /\ Goto(r, IF toAdd = <<>> /\ toRemove = <<>>
                              THEN "ensPut" ELSE "sgApply")
                   /\ UNCHANGED <<resp, req>>
     \/ /\ CanFault /\ Fault
        /\ Throw(r)

\* setGroupsByUsername, one AdminRemoveUserFromGroup / AdminAddUserToGroup.
SgApply(r) ==
  /\ pc[r] = "sgApply"
  /\ UNCHANGED rvars
  /\ UNCHANGED <<usersState, started>>
  /\ \/ /\ NoFault
        /\ IF ByUsername(loc[r].user) = {}
           THEN UNCHANGED idp /\ Throw(r)
           ELSE LET removing == loc[r].toRemove # <<>>
                    g == IF removing THEN Head(loc[r].toRemove) ELSE Head(loc[r].toAdd)
                    toRemove == IF removing THEN Tail(loc[r].toRemove) ELSE <<>>
                    toAdd == IF removing THEN loc[r].toAdd ELSE Tail(loc[r].toAdd)
                IN /\ idp' = [e \in Emails |->
                        IF e \in ByUsername(loc[r].user)
                        THEN [idp[e] EXCEPT !.groups =
                                IF removing THEN @ \ {g} ELSE @ \cup {g}]
                        ELSE idp[e]]
                   /\ loc' = [loc EXCEPT ![r].toAdd = toAdd, ![r].toRemove = toRemove]
                   /\ Goto(r, IF toAdd = <<>> /\ toRemove = <<>>
                              THEN "ensPut" ELSE "sgApply")
                   /\ UNCHANGED <<resp, req>>
     \/ /\ CanFault /\ Fault
        /\ UNCHANGED idp
        /\ Throw(r)

\* ------------------------------------------------------ POST /admin/users
CrFind(r) ==
  /\ pc[r] = "crFind"
  /\ UNCHANGED rvars
  /\ UNCHANGED <<idp, usersState, started>>
  /\ LET email == normalizeEmail(req[r].email)
         groups == normalizeGroups(req[r].groups)
     IN IF email = <<>> \/ Invalid(groups) # <<>>
        THEN NoFault /\ Respond(r, 400, "BAD_REQUEST")
        ELSE \/ /\ NoFault
                /\ UNCHANGED <<resp, req>>
                /\ IF findUserByEmail(email) # <<>>
                   THEN /\ Goto(r, "enrich")
                        /\ loc' = [loc EXCEPT ![r].email = email,
                                              ![r].user = findUserByEmail(email),
                                              ![r].final = 409]
                   ELSE /\ Goto(r, "crCreate")
                        /\ loc' = [loc EXCEPT ![r].email = email, ![r].desired = groups]
             \/ /\ CanFault /\ Fault
                /\ Throw(r)

\* AdminCreateUser creates an enabled user without groups; Username = email.
NewUser(email) ==
  [exists |-> TRUE, username |-> email, enabled |-> TRUE, groups |-> {}]

CreateEnsureArgs(r) ==
  [email |-> loc[r].email, state |-> "ACTIVE",
   groups |-> IF loc[r].desired # <<>> THEN Arr(loc[r].desired) ELSE Undef,
   actor |-> req[r].tok.email, reason |-> "USER_CREATED", catch |-> FALSE,
   now |-> r]

CrCreate(r) ==
  /\ pc[r] = "crCreate"
  /\ UNCHANGED rvars
  /\ UNCHANGED <<usersState, started>>
  /\ \/ /\ NoFault
        /\ IF idp[loc[r].email].exists
           THEN UNCHANGED idp /\ Throw(r)   \* UsernameExistsException
           ELSE /\ idp' = [idp EXCEPT ![loc[r].email] = NewUser(loc[r].email)]
                /\ loc' = [loc EXCEPT ![r].user = loc[r].email,
                                      ![r].ens = CreateEnsureArgs(r),
                                      ![r].ret = "enrich", ![r].final = 201]
                /\ Goto(r, IF loc[r].desired # <<>> THEN "sgList" ELSE "ensPut")
                /\ UNCHANGED <<resp, req>>
     \/ /\ CanFault /\ Fault
        /\ UNCHANGED idp
        /\ Throw(r)

\* ----------------------------------------------- PATCH /admin/users/groups
GrFind(r) ==
  /\ pc[r] = "grFind"
  /\ UNCHANGED rvars
  /\ UNCHANGED <<idp, usersState, started>>
  /\ LET email == normalizeEmail(req[r].email)
     IN IF email = <<>>
        THEN NoFault /\ Respond(r, 400, "BAD_REQUEST")
        ELSE \/ /\ NoFault
                /\ IF findUserByEmail(email) = <<>>
                   THEN Respond(r, 404, "NOT_FOUND")
                   ELSE /\ Goto(r, "grList")
                        /\ loc' = [loc EXCEPT ![r].email = email,
                                              ![r].user = findUserByEmail(email)]
                        /\ UNCHANGED <<resp, req>>
             \/ /\ CanFault /\ Fault
                /\ Throw(r)

\* The desired group list computed from the body and the current groups.
Desired(body, current) ==
  IF body.set.def
  THEN uniq(normalizeGroups(body.set))
  ELSE SelectSeq(uniq(current \o normalizeGroups(body.add)),
                 LAMBDA g : g \notin Range(normalizeGroups(body.remove)))

BodyInvalid(body) ==
  IF body.set.def
  THEN Invalid(normalizeGroups(body.set))
  ELSE Invalid(normalizeGroups(body.add) \o normalizeGroups(body.remove))

\* const isSelf = !!selfEmail && selfEmail === email
IsSelf(tok, email) ==
  LET selfEmail == toLowerCase(tok.email) IN selfEmail # <<>> /\ selfEmail = email

SelfLockout_EmptyOnly(tok, email, desired) ==
  IsSelf(tok, email) /\ desired = <<>>

SelfLockout(tok, email, desired) ==
  IsSelf(tok, email) /\ PLATFORM_ADMIN_GROUP \notin Range(desired)

GroupsEnsureArgs(r, desired) ==
  [email |-> loc[r].email, state |-> "", groups |-> Arr(desired),
   actor |-> req[r].tok.email, reason |-> "GROUPS_UPDATED", catch |-> FALSE,
   now |-> r]

GrList(r) ==
  /\ pc[r] = "grList"
  /\ UNCHANGED rvars
  /\ UNCHANGED <<idp, usersState, started>>
  /\ \/ /\ NoFault
        /\ IF ByUsername(loc[r].user) = {}
           THEN Throw(r)
           ELSE LET current == listGroupsForUser(loc[r].user)
                    desired == Desired(req[r].body, current)
                IN IF BodyInvalid(req[r].body) # <<>>
                   THEN Respond(r, 400, "BAD_REQUEST")
                   ELSE IF SelfLockout(req[r].tok, loc[r].email, desired)
                   THEN Respond(r, 400, "BAD_REQUEST")
                   ELSE /\ Goto(r, "sgList")
                        /\ loc' = [loc EXCEPT ![r].desired = desired,
                                              ![r].ens = GroupsEnsureArgs(r, desired),
                                              ![r].ret = "enrich", ![r].final = 200]
                        /\ UNCHANGED <<resp, req>>
     \/ /\ CanFault /\ Fault
        /\ Throw(r)

\* ---------------------------------------------------- DELETE /admin/users
\* cognitoListUsers({Limit}): the first page of the pool, in provider order.
RECURSIVE ListFrom(_)
ListFrom(es) ==
  IF es = <<>> THEN <<>>
  ELSE IF idp[Head(es)].exists
       THEN <<idp[Head(es)].username>> \o ListFrom(Tail(es))
       ELSE ListFrom(Tail(es))

Min(a, b) == IF a < b THEN a ELSE b

cognitoListUsers(limit) ==
  LET all == ListFrom(<<A, B, C>>) IN SubSeq(all, 1, Min(limit, Len(all)))

\* The last-admin sample scan: some listed user, other than the one whose
\* Username lower-cased equals the target email, holds the admin group.
OtherAdminFound(email) ==
  \E i \in 1..Len(cognitoListUsers(SampleLimit)) :
     LET u == cognitoListUsers(SampleLimit)[i]
     IN /\ toLowerCase(u) # email
        /\ PLATFORM_ADMIN_GROUP \in groupsOf(u)

DlFind_DeleteBeforeSelfCheck(r) ==
  /\ pc[r] = "dlFind"
  /\ UNCHANGED rvars
  /\ UNCHANGED <<usersState, started>>
  /\ LET email == normalizeEmail(req[r].email)
     IN IF email = <<>>
        THEN NoFault /\ Respond(r, 400, "BAD_REQUEST") /\ UNCHANGED idp
        ELSE IF IsSelf(req[r].tok, email)
        THEN /\ NoFault /\ Respond(r, 400, "BAD_REQUEST")
             /\ idp' = [idp EXCEPT ![email] = NoUser]
        ELSE /\ UNCHANGED idp
             /\ \/ /\ NoFault
                   /\ IF findUserByEmail(email) = <<>>
                      THEN Respond(r, 404, "NOT_FOUND")
                      ELSE /\ Goto(r, "dlCheck")
                           /\ loc' = [loc EXCEPT ![r].email = email,
                                                 ![r].user = findUserByEmail(email)]
                           /\ UNCHANGED <<resp, req>>
                \/ /\ CanFault /\ Fault
                   /\ Throw(r)

DlFind(r) ==
  /\ pc[r] = "dlFind"
  /\ UNCHANGED rvars
  /\ UNCHANGED <<idp, usersState, started>>
  /\ LET email == normalizeEmail(req[r].email)
     IN IF email = <<>> \/ IsSelf(req[r].tok, email)
        THEN NoFault /\ Respond(r, 400, "BAD_REQUEST")
        ELSE \/ /\ NoFault
                /\ IF findUserByEmail(email) = <<>>
                   THEN Respond(r, 404, "NOT_FOUND")
                   ELSE /\ Goto(r, "dlCheck")
                        /\ loc' = [loc EXCEPT ![r].email = email,
                                              ![r].user = findUserByEmail(email)]
                        /\ UNCHANGED <<resp, req>>
             \/ /\ CanFault /\ Fault
                /\ Throw(r)

\* listGroupsForUser(target) and, for an admin target, the sample scan.
DlCheck(r) ==
  /\ pc[r] = "dlCheck"
  /\ UNCHANGED rvars
  /\ UNCHANGED <<idp, usersState, started>>
  /\ \/ /\ NoFault
        /\ IF ByUsername(loc[r].user) = {}
           THEN Throw(r)
           ELSE IF /\ PLATFORM_ADMIN_GROUP \in groupsOf(loc[r].user)
                   /\ ~OtherAdminFound(loc[r].email)
           THEN Respond(r, 400, "BAD_REQUEST")
           ELSE Goto(r, "dlDelete") /\ UNCHANGED <<loc, resp, req>>
     \/ /\ CanFault /\ Fault
        /\ Throw(r)

\* cognitoAdminDeleteUser({ Username: user.Username })
DlDelete(r) ==
  /\ pc[r] = "dlDelete"
  /\ UNCHANGED rvars
  /\ UNCHANGED <<usersState, started>>
  /\ \/ /\ NoFault
        /\ IF ByUsername(loc[r].user) = {}
           THEN UNCHANGED idp /\ Throw(r)
           ELSE /\ idp' = [e \in Emails |->
                     IF e \in ByUsername(loc[r].user) THEN NoUser ELSE idp[e]]
                /\ Goto(r, "dlRow")
                /\ UNCHANGED <<loc, resp, req>>
     \/ /\ CanFault /\ Fault
        /\ UNCHANGED idp
        /\ Throw(r)

\* Variant: a failure of the row deletion is rethrown.
DlRow_Rethrow(r) ==
  /\ pc[r] = "dlRow"
  /\ UNCHANGED rvars
  /\ UNCHANGED <<idp, started>>
  /\ \/ /\ NoFault
        /\ Respond(r, 200, "")
        /\ usersState' = [usersState EXCEPT ![loc[r].email] = NoRow]
     \/ /\ CanFault /\ Fault
        /\ Throw(r)
        /\ UNCHANGED usersState

\* deleteUserState({ email }).catch(() => {}), then json(200, ...).
DlRow(r) ==
  /\ pc[r] = "dlRow"
  /\ UNCHANGED rvars
  /\ UNCHANGED <<idp, started>>
  /\ Respond(r, 200, "")
  /\ \/ /\ NoFault
        /\ usersState' = [usersState EXCEPT ![loc[r].email] = NoRow]
     \/ /\ CanFault /\ Fault
        /\ UNCHANGED usersState

\* -------------------------------------------------------- GET /admin/users
\* Number.parseInt of the limit query parameter: "" is NaN.
parseInt(v) ==
  CASE v = "0" -> 0
    [] v = "1" -> 1
    [] v = "2" -> 2
    [] v = "999" -> 999
    [] OTHER -> -1

clampInt(v, min, max, dflt) ==
  IF v \notin {"0", "1", "2", "999"} THEN dflt
  ELSE LET n == parseInt(v)
       IN IF n > max THEN max ELSE IF n < min THEN min ELSE n

LsList(r) ==
  /\ pc[r] = "lsList"
  /\ UNCHANGED rvars
  /\ UNCHANGED <<idp, usersState, started>>
  /\ \/ /\ NoFault
        /\ loc' = [loc EXCEPT ![r].users =
              cognitoListUsers(clampInt(req[r].limit, 1, ListLimitMax, ListLimitDefault))]
        /\ Goto(r, "lsEnrich")
        /\ UNCHANGED <<resp, req>>
     \/ /\ CanFault /\ Fault
        /\ Throw(r)

emailOf(username) ==
  IF ByUsername(username) = {} THEN <<>> ELSE CHOOSE e \in ByUsername(username) : TRUE

\* Variant: the repair's failure is not caught.
ListEnsureArgs_Rethrow(r, email, groups) ==
  [email |-> email, state |-> "ACTIVE", groups |-> Arr(Listed(groups)),
   actor |-> req[r].tok.email, reason |-> "SELF_HEAL_LIST", catch |-> FALSE,
   now |-> r]

ListEnsureArgs(r, email, groups) ==
  [email |-> email, state |-> "ACTIVE", groups |-> Arr(Listed(groups)),
   actor |-> req[r].tok.email, reason |-> "SELF_HEAL_LIST", catch |-> TRUE,
   now |-> r]

\* What enrichUser returns for a listed user, as far as the row goes: the
\* email, the state it read ("" for null), and for the history whether the
\* row was there when the loop reached the user and whether a call failed
\* since.
Enriched(r, u, state) ==
  [email |-> emailOf(u), state |-> state,
   hadRow |-> usersState[emailOf(u)].exists,
   failed |-> faults' > loc[r].mark]

\* One turn of the loop: enrichUser(u.Username), then the repair if the
\* enriched user shows no state.
LsEnrich(r) ==
  /\ pc[r] = "lsEnrich"
  /\ UNCHANGED rvars
  /\ UNCHANGED <<idp, usersState, started>>
  /\ IF loc[r].users = <<>>
     THEN NoFault /\ Respond(r, 200, "")
     ELSE LET u == Head(loc[r].users)
              repair == /\ Goto(r, "ensPut")
                        /\ loc' = [loc EXCEPT ![r].user = u,
                                     ![r].ens = ListEnsureArgs(r, emailOf(u), groupsOf(u)),
                                     ![r].ret = "lsRefresh",
                                     ![r].mark = faults,
                                     ![r].rowSeen = usersState[emailOf(u)].exists]
                        /\ UNCHANGED <<resp, req>>
          IN \/ /\ NoFault
                /\ IF ByUsername(u) = {}
                   THEN Throw(r)
                   ELSE IF getUserState(emailOf(u)) = ""
                   THEN repair
                   ELSE /\ loc' = [loc EXCEPT ![r].users = Tail(@),
                                     ![r].out = Append(@, Enriched(r, u, getUserState(emailOf(u))))]
                        /\ UNCHANGED <<pc, resp, req>>
             \/ /\ CanFault /\ Fault       \* AdminGetUser / AdminListGroupsForUser
                /\ Throw(r)
             \/ /\ CanFault /\ Fault       \* getUserState(email).catch(() => null)
                /\ ByUsername(u) # {}
                /\ repair

\* The re-read after a repair; hadRow is what the first read of the turn saw.
Refreshed(r, state) ==
  [email |-> emailOf(loc[r].user), state |-> state,
   hadRow |-> loc[r].rowSeen,
   failed |-> faults' > loc[r].mark]

\* const refreshed = await enrichUser(u.Username); out.push(refreshed)
LsRefresh(r) ==
  /\ pc[r] = "lsRefresh"
  /\ UNCHANGED rvars
  /\ UNCHANGED <<idp, usersState, started>>
  /\ \/ /\ NoFault
        /\ IF ByUsername(loc[r].user) = {}
           THEN Throw(r)
           ELSE /\ loc' = [loc EXCEPT ![r].users = Tail(@),
                     ![r].out = Append(@, Refreshed(r, getUserState(emailOf(loc[r].user))))]
                /\ Goto(r, "lsEnrich")
                /\ UNCHANGED <<resp, req>>
     \/ /\ CanFault /\ Fault
        /\ Throw(r)
     \/ /\ CanFault /\ Fault       \* getUserState(email).catch(() => null)
        /\ ByUsername(loc[r].user) # {}
        /\ loc' = [loc EXCEPT ![r].users = Tail(@),
                     ![r].out = Append(@, Refreshed(r, ""))]
        /\ Goto(r, "lsEnrich")
        /\ UNCHANGED <<resp, req>>

Handle(r) ==
  \/ Begin(r) \/ Return(r) \/ EnsPut(r) \/ EnsUpd(r) \/ EnsGet(r) \/ Gated(r)
  \/ Enrich(r) \/ StFind(r) \/ StIdp(r)
  \/ SgList(r) \/ SgApply(r) \/ CrFind(r) \/ CrCreate(r) \/ GrFind(r) \/ GrList(r)
  \/ DlFind(r) \/ DlCheck(r) \/ DlDelete(r) \/ DlRow(r)
  \/ LsList(r) \/ LsEnrich(r) \/ LsRefresh(r)

Next == Handle(1)

\* The admin router handling one request at a time.
Spec == Init /\ [][Next]_vars

\* ================================================== packages/authz resolver
\* Authorization headers a client can send and what the external verifier
\* makes of the token: claims for a good token, a thrown error otherwise.
Headers == {"", "Basic abc", "Bearer good-a", "bearer good-b", "Bearer expired",
            "Bearer garbage", "Bearer unreachable"}

\* String(h).match(/^Bearer\s+(.+)$/i)?.[1] || null   ("" stands for null)
extractBearer(h) ==
  CASE h = "Bearer good-a" -> "good-a"
    [] h = "bearer good-b" -> "good-b"
    [] h = "Bearer expired" -> "expired"
    [] h = "Bearer garbage" -> "garbage"
    [] h = "Bearer unreachable" -> "unreachable"
    [] OTHER -> ""

\* verifyAccessToken: the verifier accepts exactly the good tokens.
Verifies(token) == token \in {"good-a", "good-b"}
\* What the verifier throws: an expired token, a malformed one, and a key
\* set it cannot download for a token it would otherwise have to check.
VerifierError(token) ==
  CASE token = "expired" -> "JwtExpiredError"
    [] token = "unreachable" -> "FetchError"
    [] OTHER -> "JwtParseError"

\* The lower-cased words of an error's name and message.
ErrWords(err) ==
  CASE err = "JwtExpiredError" -> {"jwt", "expired", "error", "token", "at"}
    [] err = "JwtParseError" -> {"jwt", "parse", "error", "invalid", "string"}
    [] err = "FetchError" -> {"fetch", "error", "failed", "to", "jwks"}
    [] err = "UnauthorizedError" -> {"unauthorized", "error", "missing", "or", "invalid", "token"}
    [] err = "ForbiddenError" -> {"forbidden", "error", "user", "not", "active"}
    [] OTHER -> {"store", "error"}

\* err?.statusCode (0 stands for undefined)
statusCode(err) ==
  CASE err = "UnauthorizedError" -> 401
    [] err = "ForbiddenError" -> 403
    [] OTHER -> 0

looksLikeJwtError(err) ==
  ErrWords(err) \cap {"jwt", "token", "signature", "expired", "invalid"} # {}

\* toHttpError, first definition of the file.
toHttpError(err) ==
  IF statusCode(err) # 0 THEN statusCode(err)
  ELSE IF looksLikeJwtError(err) THEN 401
  ELSE 500

\* toHttpError, second definition of the file.
toHttpError_2(err) == IF statusCode(err) # 0 THEN statusCode(err) ELSE 500
ClaimsOf(token) ==
  IF token = "good-a"
  THEN [sub |-> "sub-a", email |-> <<"A", "@", "x">>, groups |-> <<"PlatformAdmin", "Seller">>]
  ELSE [sub |-> "sub-b", email |-> <<>>, groups |-> <<>>]

\* resolvePrincipalOptional's return value for verified claims.
PrincipalOf(claims) ==
  [present |-> TRUE, userId |-> claims.sub, email |-> toLowerCase(claims.email),
   groups |-> claims.groups]

\* resolveUserState: GetItem on USER#<key>, res.Item?.state?.S ?? null.
resolveUserState(key) == authzState[key]

\* resolveUserStateBySub: the point lookup of the account-state store
\* (getState), keyed by the subject id; "" stands for null.
resolveUserStateBySub(userId) == resolveUserState(userId)

resolveCapabilities_FirstItem(groups) ==
  IF groups # <<>> /\ groups[1] \in DOMAIN authzCaps THEN authzCaps[groups[1]] ELSE {}

\* resolveCapabilities: union of the capability sets of the groups' items.
resolveCapabilities(groups) ==
  UNION {authzCaps[g] : g \in Range(groups) \cap DOMAIN authzCaps}

\* resolveGrants: every {resource, perm} item of PRINCIPAL#USER#<userId>.
resolveGrants(userId) ==
  {[resource |-> g.resource, perm |-> g.perm] : g \in {x \in authzGrants : x.userId = userId}}

StateValues == {"", "ACTIVE", "SUSPENDED", "DISABLED", "PENDING"}
CapTables == { [g \in {"PlatformAdmin", "Seller"} |->
                  IF g = "PlatformAdmin" THEN {"admin", "stores:read"} ELSE {"stores:read"}],
               [g \in {"Seller"} |-> {"stores:read"}] }
GrantTables == { {}, {[userId |-> "sub-a", resource |-> "STORE#42", perm |-> "OWNER"]} }

InitResolve ==
  /\ idp = [e \in Emails |-> NoUser]
  /\ usersState = [e \in Emails |-> NoRow]
  /\ pc = [r \in Slots |-> "idle"]
  /\ req = [r \in Slots |-> NoReq]
  /\ loc = [r \in Slots |-> LocInit]
  /\ resp = [r \in Slots |-> NoResp]
  /\ started = 0
  /\ faults = 0
  /\ authzState \in [Subs -> StateValues]
  /\ authzCaps \in CapTables
  /\ authzGrants \in GrantTables
  /\ rz = NoRz
  /\ lib = NoLib

\* The module declares toHttpError twice; which declaration a build keeps
\* is not fixed by the source, so an error's status is either one's answer.
Outcome(outcome, error) ==
  \E status \in {toHttpError(error), toHttpError_2(error)} :
     rz' = [rz EXCEPT !.phase = "done", !.outcome = outcome, !.error = error,
                      !.status = status]

\* resolveAuthContextOptional / resolveAuthContextRequired are called.
RBegin ==
  /\ rz.phase \in {"idle", "done"}
  /\ started < MaxRequests
  /\ started' = started + 1
  /\ \E required \in BOOLEAN, h \in Headers :
       rz' = [NoRz EXCEPT !.phase = "principal", !.required = required, !.header = h]
  /\ UNCHANGED <<avars, faults, authzState, authzCaps, authzGrants, lib>>

\* resolvePrincipalOptional, and resolvePrincipalRequired's null check.
RPrincipal ==
  /\ rz.phase = "principal"
  /\ UNCHANGED <<avars, started, faults, authzState, authzCaps, authzGrants, lib>>
  /\ LET token == extractBearer(rz.header)
     IN IF token = ""
        THEN IF rz.required
             THEN Outcome("error", "UnauthorizedError")
             ELSE rz' = [rz EXCEPT !.phase = "state"]
        ELSE IF Verifies(token)
        THEN rz' = [rz EXCEPT !.phase = "state", !.principal = PrincipalOf(ClaimsOf(token))]
        ELSE Outcome("error", VerifierError(token))

RState_DefaultOnFailure ==
  /\ rz.phase = "state"
  /\ UNCHANGED <<avars, started, authzState, authzCaps, authzGrants, lib>>
  /\ \/ /\ NoFault
        /\ rz' = [rz EXCEPT !.phase = "capabilities",
                            !.state = IF rz.principal.present
                                      THEN resolveUserStateBySub(rz.principal.userId) ELSE ""]
     \/ /\ rz.principal.present /\ CanFault /\ Fault
        /\ rz' = [rz EXCEPT !.phase = "capabilities", !.state = ""]

\* resolve(): the three awaited lookups, in source order; each may reject.
RState ==
  /\ rz.phase = "state"
  /\ UNCHANGED <<avars, started, authzState, authzCaps, authzGrants, lib>>
  /\ \/ /\ NoFault
        /\ rz' = [rz EXCEPT !.phase = "capabilities",
                            !.state = IF rz.principal.present
                                      THEN resolveUserStateBySub(rz.principal.userId) ELSE ""]
     \/ /\ rz.principal.present /\ CanFault /\ Fault
        /\ Outcome("error", "StoreError")

RCapabilities ==
  /\ rz.phase = "capabilities"
  /\ UNCHANGED <<avars, started, authzState, authzCaps, authzGrants, lib>>
  /\ \/ /\ NoFault
        /\ rz' = [rz EXCEPT !.phase = "grants",
                            !.capabilities = IF rz.principal.present
                                             THEN resolveCapabilities(rz.principal.groups)
                                             ELSE {}]
     \/ /\ rz.principal.present /\ rz.principal.groups # <<>> /\ CanFault /\ Fault
        /\ Outcome("error", "StoreError")

PassesActiveGate_DisabledOnly(state) == state # "DISABLED"

\* The state a context must show to pass resolveAuthContextRequired.
PassesActiveGate(state) == state = "ACTIVE"

RGrants ==
  /\ rz.phase = "grants"
  /\ UNCHANGED <<avars, started, authzState, authzCaps, authzGrants, lib>>
  /\ \/ /\ NoFault
        /\ LET grants == IF rz.principal.present
                         THEN resolveGrants(rz.principal.userId) ELSE {}
           IN IF rz.required /\ ~PassesActiveGate(rz.state)
              THEN rz' = [rz EXCEPT !.phase = "done", !.grants = grants,
                                    !.outcome = "error", !.error = "ForbiddenError",
                                    !.status = toHttpError("ForbiddenError")]
              ELSE rz' = [rz EXCEPT !.phase = "done", !.grants = grants,
                                    !.outcome = "context"]
     \/ /\ rz.principal.present /\ CanFault /\ Fault
        /\ Outcome("error", "StoreError")

NextResolve == RBegin \/ RPrincipal \/ RState \/ RCapabilities \/ RGrants

SpecResolve == InitResolve /\ [][NextResolve]_vars

\* ================================================== lambda/auth/admin.js
\* resolve() hands the context the Set that resolveCapabilities returns when
\* there is a principal, and the array literal [] when there is none.
CapabilitiesIsSet(auth) == auth.principal.present

\* Variant: the capabilities are read with the collection's own membership test.
requireCapability_Has(auth, cap) ==
  IF cap \in auth.capabilities THEN "" ELSE "ForbiddenError"

\* requireCapability(auth, cap): auth.capabilities.includes(cap). A Set has no
\* includes method, so the call throws a TypeError; an array answers.
\* The result is the error thrown ("" for none).
requireCapability(auth, cap) ==
  IF CapabilitiesIsSet(auth) THEN "TypeError"
  ELSE IF cap \in auth.capabilities THEN "" ELSE "ForbiddenError"

\* The status the handler's catch picks from the error's message.
AdminCatchStatus(err) ==
  CASE err = "UnauthorizedError" -> 401   \* "Missing or invalid token"
    [] err = "ForbiddenError" -> 403      \* "User not active", "Missing capability: ..."
    [] OTHER -> 500

\* handler(event) calls resolveAuthContextRequired.
AjBegin ==
  /\ pc[1] \in {"idle", "done"}
  /\ rz.phase \in {"idle", "done"}
  /\ started < MaxRequests
  /\ started' = started + 1
  /\ \E h \in Headers :
       rz' = [NoRz EXCEPT !.phase = "principal", !.required = TRUE, !.header = h]
  /\ pc' = [pc EXCEPT ![1] = "ajResolve"]
  /\ resp' = [resp EXCEPT ![1] = NoResp]
  /\ UNCHANGED <<idp, usersState, req, loc, faults, authzState, authzCaps, authzGrants, lib>>

\* The resolver returned or threw: requireCapability(ctx, "admin"), then
\* json(200, ...) or the catch.
AjGuard ==
  /\ pc[1] = "ajResolve"
  /\ rz.phase = "done"
  /\ LET err == IF rz.outcome = "error" THEN rz.error ELSE requireCapability(rz, "admin")
     IN resp' = [resp EXCEPT ![1] =
                   IF err = "" THEN [status |-> 200, error |-> ""]
                   ELSE [status |-> AdminCatchStatus(err), error |-> err]]
  /\ pc' = [pc EXCEPT ![1] = "done"]
  /\ UNCHANGED <<idp, usersState, req, loc, started, faults, rvars>>

NextAdminJs == AjBegin \/ RPrincipal \/ RState \/ RCapabilities \/ RGrants \/ AjGuard

\* The capability-gated admin handler on top of the resolver.
SpecAdminJs == InitResolve /\ [][NextAdminJs]_vars

\* ============================================ concurrent first requests
\* Lambda runs invocations of the handler concurrently; every awaited call is
\* one atomic step at the store it talks to.  Here the caller a@x is a pool
\* user that has no users_state row yet (neither has b@x), and sends
\* GET /admin/users requests that overlap.
RaceEvents == { Event("list", TokA, <<>>, "", NoBody, Undef, lim) : lim \in RawLimits }

InitRace ==
  /\ idp = [e \in Emails |->
              IF e = A THEN User(A, TRUE, {"PlatformAdmin"})
              ELSE IF e = B THEN User(SubB, TRUE, {"Seller"}) ELSE NoUser]
  /\ usersState = [e \in Emails |-> NoRow]
  /\ pc = [r \in Slots |-> "idle"]
  /\ req = [r \in Slots |-> NoReq]
  /\ loc = [r \in Slots |-> LocInit]
  /\ resp = [r \in Slots |-> NoResp]
  /\ started = 0
  /\ faults = 0
  /\ authzState = [k \in Subs |-> ""]
  /\ authzCaps = [g \in {} |-> {}]
  /\ authzGrants = {}
  /\ rz = NoRz
  /\ lib = NoLib

BeginRace(r) == BeginWith(r, RaceEvents)

HandleRace(r) ==
  \/ BeginRace(r) \/ Return(r) \/ EnsPut(r) \/ EnsUpd(r) \/ EnsGet(r) \/ Gated(r)
  \/ LsList(r) \/ LsEnrich(r) \/ LsRefresh(r)

NextRace == \E r \in Slots : HandleRace(r)

SpecRace == InitRace /\ [][NextRace]_vars

\* ------------------------------------------ concurrent POST /admin/users
\* Two invocations create the same new user c@x; the caller's row exists.
CreateRaceEvents ==
  { Event("create", TokA, C, "", NoBody, cg, "") : cg \in {Undef, Arr(<<"Seller">>)} }

InitCreateRace ==
  /\ idp = [e \in Emails |-> IF e = A THEN User(A, TRUE, {"PlatformAdmin"}) ELSE NoUser]
  /\ usersState \in {[e \in Emails |-> IF e = A THEN row ELSE NoRow] :
                       row \in {CreatedRow({"PlatformAdmin"}, "USER_CREATED"), SignupRow("ACTIVE")}}
  /\ pc = [r \in Slots |-> "idle"]
  /\ req = [r \in Slots |-> NoReq]
  /\ loc = [r \in Slots |-> LocInit]
  /\ resp = [r \in Slots |-> NoResp]
  /\ started = 0
  /\ faults = 0
  /\ authzState = [k \in Subs |-> ""]
  /\ authzCaps = [g \in {} |-> {}]
  /\ authzGrants = {}
  /\ rz = NoRz
  /\ lib = NoLib

BeginCreateRace(r) == BeginWith(r, CreateRaceEvents)

HandleCreateRace(r) ==
  \/ BeginCreateRace(r) \/ Return(r) \/ EnsPut(r) \/ EnsUpd(r) \/ EnsGet(r) \/ Gated(r)
  \/ CrFind(r) \/ CrCreate(r) \/ SgList(r) \/ SgApply(r) \/ Enrich(r)

NextCreateRace == \E r \in Slots : HandleCreateRace(r)

SpecCreateRace == InitCreateRace /\ [][NextCreateRace]_vars

\* ------------------------------------------------- library calls on their own
\* The parts of a start state no library call touches.
Quiet ==
  /\ idp = [e \in Emails |-> NoUser]
  /\ pc = [r \in Slots |-> "idle"]
  /\ req = [r \in Slots |-> NoReq]
  /\ loc = [r \in Slots |-> LocInit]
  /\ resp = [r \in Slots |-> NoResp]
  /\ started = 0
  /\ faults = 0
  /\ rz = NoRz
  /\ lib = NoLib

\* The caller takes the call's result; the next call can be made.
LibReturn ==
  /\ lib.phase = "done"
  /\ lib' = NoLib
  /\ UNCHANGED <<avars, started, faults, authzState, authzCaps, authzGrants, rz>>

\* ---------------------------------------------------- resolveCapabilities
CapGroups == {"G1", "G2", "G3"}
\* capabilities.SS of an item; {} is an item without the attribute
CapSets == {{}, {"a", "b"}, {"b", "c"}, {"c"}}
\* group lists as a token carries them: no name twice
GroupLists ==
  {s \in UNION {[1..n -> CapGroups] : n \in 0..Cardinality(CapGroups)} :
     \A i, j \in DOMAIN s : i # j => s[i] # s[j]}

InitCaps ==
  /\ Quiet
  /\ usersState = [e \in Emails |-> NoRow]
  /\ authzState = [s \in Subs |-> ""]
  /\ authzCaps \in UNION {[D -> CapSets] : D \in SUBSET CapGroups}
  /\ authzGrants = {}

\* resolveCapabilities(groups, tableName) up to the BatchGetItem request.
CapBegin ==
  /\ lib.phase = "idle"
  /\ started < MaxRequests
  /\ started' = started + 1
  /\ \E groups \in GroupLists :
       lib' = [op |-> "resolveCapabilities", groups |-> groups, sent |-> FALSE,
               phase |-> IF groups = <<>> THEN "done" ELSE "send",
               outcome |-> IF groups = <<>> THEN "value" ELSE "", value |-> {}]
  /\ UNCHANGED <<avars, faults, authzState, authzCaps, authzGrants, rz>>

\* The BatchGetItem request is answered or rejected.
CapSend ==
  /\ lib.op = "resolveCapabilities" /\ lib.phase = "send"
  /\ UNCHANGED <<avars, started, authzState, authzCaps, authzGrants, rz>>
  /\ \/ /\ NoFault
        /\ lib' = [lib EXCEPT !.phase = "done", !.sent = TRUE, !.outcome = "value",
                              !.value = resolveCapabilities(lib.groups)]
     \/ /\ CanFault /\ Fault
        /\ lib' = [lib EXCEPT !.phase = "done", !.sent = TRUE, !.outcome = "error"]

NextCaps == CapBegin \/ CapSend \/ LibReturn

SpecCaps == InitCaps /\ [][NextCaps]_vars

\* --------------------------------------------- hasGrant, requireStoreOwner
\* Strings are sequences of pieces, so that begins_with compares piece by
\* piece: "RESOURCE#STORE#42#PERM#OWNER" is
\* <<"RESOURCE#", "STORE#", "4", "2", "#", "PERM#", "OWNER">>.
StoreIds == {<<"4">>, <<"4", "2">>, <<"4", "3">>}
Perms == {"OWNER", "EDITOR"}
StorePrefix(storeId) == <<"RESOURCE#", "STORE#">> \o storeId
GrantSk(storeId, perm) == StorePrefix(storeId) \o <<"#", "PERM#", perm>>
\* `RESOURCE#STORE#${storeId}#PERM#OWNER`
OwnerSkPrefix(storeId) == GrantSk(storeId, "OWNER")
\* an item of the grants table: pk PRINCIPAL#USER#<userId>, sk, attributes
GrantItem(userId, storeId, perm) ==
  [userId |-> userId, sk |-> GrantSk(storeId, perm),
   resource |-> StorePrefix(storeId), perm |-> perm]
GrantItems == {GrantItem(u, sid, p) : u \in {"sub-a", "sub-b"}, sid \in StoreIds, p \in Perms}
GrantPrincipals == {TokA, TokSeller}
SkPrefixes ==
  {OwnerSkPrefix(sid) : sid \in StoreIds} \cup {StorePrefix(sid) : sid \in StoreIds}

\* begins_with(#sk, :sk)
BeginsWith(sk, prefix) ==
  Len(prefix) <= Len(sk) /\ SubSeq(sk, 1, Len(prefix)) = prefix

hasGrant_AnyPartition(principal, resourceSkPrefix) ==
  \E item \in authzGrants : BeginsWith(item.sk, resourceSkPrefix)

\* hasGrant: Query pk = PRINCIPAL#USER#<userId> AND begins_with(sk, prefix),
\* Limit 1, (res.Count ?? 0) > 0.
hasGrant(principal, resourceSkPrefix) ==
  \E item \in authzGrants :
     item.userId = principal.sub /\ BeginsWith(item.sk, resourceSkPrefix)

PassesStoreOwner_GrantOnly(principal, ok) == ok

\* requireStoreOwner's test after the query: ok || hasGroup(principal, "PlatformAdmin")
PassesStoreOwner(principal, ok) == ok \/ hasGroup(principal, PLATFORM_ADMIN_GROUP)

InitGrants ==
  /\ Quiet
  /\ usersState = [e \in Emails |-> NoRow]
  /\ authzState = [s \in Subs |-> ""]
  /\ authzCaps = [g \in {} |-> {}]
  /\ authzGrants \in {T \in SUBSET GrantItems : Cardinality(T) <= MaxGrants}

NoGrantCall ==
  [op |-> "", phase |-> "idle", principal |-> TokA, prefix |-> <<>>, storeId |-> <<>>,
   outcome |-> "", value |-> FALSE, error |-> ""]

\* hasGrant(principal, resourceSkPrefix, opts) up to its Query.
HasGrantCall ==
  /\ lib.phase = "idle"
  /\ started < MaxRequests
  /\ started' = started + 1
  /\ \E principal \in GrantPrincipals, prefix \in SkPrefixes :
       lib' = [NoGrantCall EXCEPT !.op = "hasGrant", !.phase = "query",
                                  !.principal = principal, !.prefix = prefix]
  /\ UNCHANGED <<avars, faults, authzState, authzCaps, authzGrants, rz>>

\* requireStoreOwner(principal, storeId, opts) up to hasGrant's Query.
StoreOwnerCall ==
  /\ lib.phase = "idle"
  /\ started < MaxRequests
  /\ started' = started + 1
  /\ \E principal \in GrantPrincipals, storeId \in StoreIds :
       lib' = [NoGrantCall EXCEPT !.op = "requireStoreOwner", !.phase = "query",
                                  !.principal = principal, !.storeId = storeId,
                                  !.prefix = OwnerSkPrefix(storeId)]
  /\ UNCHANGED <<avars, faults, authzState, authzCaps, authzGrants, rz>>

\* The Query is answered or rejected, and the caller continues.
GrantQuery ==
  /\ lib.phase = "query"
  /\ UNCHANGED <<avars, started, authzState, authzCaps, authzGrants, rz>>
  /\ \/ /\ NoFault
        /\ LET ok == hasGrant(lib.principal, lib.prefix)
           IN IF lib.op = "hasGrant"
              THEN lib' = [lib EXCEPT !.phase = "done", !.outcome = "value", !.value = ok]
              ELSE IF PassesStoreOwner(lib.principal, ok)
              THEN lib' = [lib EXCEPT !.phase = "done", !.outcome = "return", !.value = ok]
              ELSE lib' = [lib EXCEPT !.phase = "done", !.outcome = "error", !.value = ok,
                                      !.error = "FORBIDDEN"]
     \/ /\ CanFault /\ Fault
        /\ lib' = [lib EXCEPT !.phase = "done", !.outcome = "error", !.error = "StoreError"]

NextGrants == HasGrantCall \/ StoreOwnerCall \/ GrantQuery \/ LibReturn

SpecGrants == InitGrants /\ [][NextGrants]_vars

\* ------------------------------------------- normalizeGroups of core.ts
\* (named coreNormalizeGroups here: index.js has a normalizeGroups of its own)
Quote == "\""

\* s.split(sep) for a one-character separator
RECURSIVE split(_, _)
split(s, sep) ==
  IF sep \notin Range(s) THEN <<s>>
  ELSE LET i == CHOOSE k \in 1..Len(s) : s[k] = sep /\ \A j \in 1..(k - 1) : s[j] # sep
       IN <<SubSeq(s, 1, i - 1)>> \o split(SubSeq(s, i + 1, Len(s)), sep)

\* arr.join(sep)
RECURSIVE join(_, _)
join(arr, sep) ==
  IF arr = <<>> THEN <<>>
  ELSE IF Len(arr) = 1 THEN arr[1]
  ELSE arr[1] \o sep \o join(Tail(arr), sep)

\* .map(String).map((x) => x.trim()).filter(Boolean)
Clean(arr) ==
  SelectSeq([i \in DOMAIN arr |-> trim(arr[i])], LAMBDA x : x # <<>>)

\* JSON.parse of the text between the brackets of an array: strings in
\* double quotes separated by commas, white space allowed around them.
\* mode: "first" (a value or the end), "value" (a value), "string" (inside
\* quotes), "afterValue" (a comma or the end).
RECURSIVE ParseElements(_, _, _, _, _)
ParseElements(s, i, mode, cur, acc) ==
  IF i > Len(s)
  THEN [ok |-> mode \in {"first", "afterValue"}, value |-> acc]
  ELSE LET c == s[i]
       IN CASE mode = "string" ->
                 IF c = Quote
                 THEN ParseElements(s, i + 1, "afterValue", <<>>, Append(acc, cur))
                 ELSE ParseElements(s, i + 1, "string", Append(cur, c), acc)
            [] mode = "afterValue" ->
                 IF c = " " THEN ParseElements(s, i + 1, "afterValue", cur, acc)
                 ELSE IF c = "," THEN ParseElements(s, i + 1, "value", cur, acc)
                 ELSE [ok |-> FALSE, value |-> <<>>]
            [] OTHER ->
                 IF c = " " THEN ParseElements(s, i + 1, mode, cur, acc)
                 ELSE IF c = Quote THEN ParseElements(s, i + 1, "string", <<>>, acc)
                 ELSE [ok |-> FALSE, value |-> <<>>]

\* JSON.parse(s) for s that starts with "[" and ends with "]"; ok = FALSE
\* stands for the SyntaxError it throws.
JSONparse(s) == ParseElements(SubSeq(s, 2, Len(s) - 1), 1, "first", <<>>, <<>>)

\* JSON.stringify(arr), and the same text with spaces a writer may add
stringify(arr) ==
  <<"[">> \o join([i \in DOMAIN arr |-> <<Quote>> \o arr[i] \o <<Quote>>], <<",">>) \o <<"]">>
stringifySpaced(arr) ==
  <<" ", "[">> \o join([i \in DOMAIN arr |-> <<Quote>> \o arr[i] \o <<Quote>>], <<",", " ">>)
               \o <<" ", "]", " ">>

\* values of v: undefined, an array of strings, a string, a number
Undefined == [type |-> "undefined", arr |-> <<>>, str |-> <<>>]
AsArray(arr) == [type |-> "array", arr |-> arr, str |-> <<>>]
AsString(str) == [type |-> "string", arr |-> <<>>, str |-> str]
AsNumber(str) == [type |-> "number", arr |-> <<>>, str |-> str]

coreNormalizeGroups_NoJson(v) ==
  IF v.type = "undefined" \/ (v.type = "string" /\ v.str = <<>>) THEN <<>>
  ELSE IF v.type = "array" THEN Clean(v.arr)
  ELSE IF v.type = "string"
  THEN LET s == trim(v.str)
       IN IF s = <<>> THEN <<>>
          ELSE IF "," \in Range(s) THEN Clean(split(s, ","))
          ELSE <<s>>
  ELSE Clean(<<v.str>>)

coreNormalizeGroups(v) ==
  IF v.type = "undefined" \/ (v.type = "string" /\ v.str = <<>>) THEN <<>>
  ELSE IF v.type = "array" THEN Clean(v.arr)
  ELSE IF v.type = "string"
  THEN LET s == trim(v.str)
       IN IF s = <<>> THEN <<>>
          ELSE IF Head(s) = "[" /\ s[Len(s)] = "]"
          THEN IF JSONparse(s).ok
               THEN Clean(JSONparse(s).value)
               ELSE LET inner == trim(SubSeq(s, 2, Len(s) - 1))
                    IN IF inner = <<>> THEN <<>> ELSE Clean(split(inner, ","))
          ELSE IF "," \in Range(s) THEN Clean(split(s, ","))
          ELSE <<s>>
  ELSE Clean(<<v.str>>)

\* group names as a caller may write them, and lists of them
NameEntries == {<<>>, <<" ">>, <<"A">>, <<"B">>, <<" ", "A">>, <<"A", " ">>}
NameLists == UNION {[1..n -> NameEntries] : n \in 0..MaxNames}
\* arbitrary short texts, bare, bracketed and half bracketed
BodyChars == {"A", ",", " ", Quote}
Bodies == UNION {[1..n -> BodyChars] : n \in 0..MaxBody}

GroupInputs ==
  {[kind |-> "array", names |-> l, v |-> AsArray(l)] : l \in NameLists}
    \cup {[kind |-> "json", names |-> l, v |-> AsString(stringify(l))] : l \in NameLists}
    \cup {[kind |-> "jsonSpaced", names |-> l, v |-> AsString(stringifySpaced(l))] : l \in NameLists}
    \cup {[kind |-> "comma", names |-> l, v |-> AsString(join(l, <<",">>))] : l \in NameLists}
    \cup {[kind |-> "text", names |-> <<>>, v |-> AsString(b)] : b \in Bodies}
    \cup {[kind |-> "text", names |-> <<>>, v |-> AsString(<<"[">> \o b \o <<"]">>)] : b \in Bodies}
    \cup {[kind |-> "text", names |-> <<>>, v |-> AsString(<<"[">> \o b)] : b \in Bodies}
    \cup {[kind |-> "text", names |-> <<>>, v |-> AsNumber(<<"5">>)],
          [kind |-> "absent", names |-> <<>>, v |-> Undefined]}

InitGroups ==
  /\ Quiet
  /\ usersState = [e \in Emails |-> NoRow]
  /\ authzState = [s \in Subs |-> ""]
  /\ authzCaps = [g \in {} |-> {}]
  /\ authzGrants = {}

\* getPrincipal calls normalizeGroups on the groups claim.
NormalizeGroupsCall ==
  /\ lib.phase = "idle"
  /\ started < MaxRequests
  /\ started' = started + 1
  /\ \E in \in GroupInputs :
       lib' = [op |-> "normalizeGroups", phase |-> "done", kind |-> in.kind,
               names |-> in.names, v |-> in.v, value |-> coreNormalizeGroups(in.v)]
  /\ UNCHANGED <<avars, faults, authzState, authzCaps, authzGrants, rz>>

NextGroups == NormalizeGroupsCall \/ LibReturn

SpecGroups == InitGroups /\ [][NextGroups]_vars

\* ------------------------------------- normalizeGroups of the admin router
\* lambda/auth/index.js has its own normalizeGroups for the body fields
\* groups / set / add / remove; it looks for a comma before it looks for
\* the brackets of a JSON array.
adminNormalizeGroups(v) ==
  IF v.type = "undefined" \/ (v.type = "string" /\ v.str = <<>>) THEN <<>>
  ELSE IF v.type = "array" THEN Clean(v.arr)
  ELSE IF v.type = "string"
  THEN LET s == trim(v.str)
       IN IF s = <<>> THEN <<>>
          ELSE IF "," \in Range(s) THEN Clean(split(s, ","))
          ELSE IF Head(s) = "[" /\ s[Len(s)] = "]"
          THEN IF JSONparse(s).ok
               THEN Clean(JSONparse(s).value)
               ELSE LET inner == trim(SubSeq(s, 2, Len(s) - 1))
                    IN IF inner = <<>> THEN <<>> ELSE Clean(split(inner, ","))
          ELSE <<s>>
  ELSE Clean(<<v.str>>)

\* The names that stand for the role groups in the texts above.
RoleNames == {<<"A">>, <<"B">>}

\* groups.filter((g) => !ROLE_GROUPS.includes(g))
invalid(groups) == SelectSeq(groups, LAMBDA g : g \notin RoleNames)

\* A handler normalizes a body field and validates the result.
AdminNormalizeGroupsCall ==
  /\ lib.phase = "idle"
  /\ started < MaxRequests
  /\ started' = started + 1
  /\ \E in \in GroupInputs :
       lib' = [op |-> "adminNormalizeGroups", phase |-> "done", kind |-> in.kind,
               names |-> in.names, v |-> in.v, value |-> adminNormalizeGroups(in.v),
               invalid |-> invalid(adminNormalizeGroups(in.v))]
  /\ UNCHANGED <<avars, faults, authzState, authzCaps, authzGrants, rz>>

NextAdminGroups == AdminNormalizeGroupsCall \/ LibReturn

SpecAdminGroups == InitGroups /\ [][NextAdminGroups]_vars

\* ---------------------------------------- signup post-confirmation trigger
CONFIRM_SIGNUP == "PostConfirmation_ConfirmSignUp"
TriggerSources == {CONFIRM_SIGNUP, "PostConfirmation_ConfirmForgotPassword"}

\* normalizeEmail of the trigger: null unless the trimmed, lower-cased text
\* holds "@" (<<>> stands for null / undefined / "").
signupNormalizeEmail(v) ==
  IF v = <<>> THEN <<>>
  ELSE LET s == toLowerCase(trim(v))
       IN IF "@" \notin Range(s) THEN <<>> ELSE s

\* The item createUserStateIfMissing puts.
SignupItem(args) ==
  [exists |-> TRUE, state |-> args.state, groups |-> {}, createdBy |-> args.actor,
   lastReason |-> args.reason, createdAt |-> args.now]

createUserStateIfMissing_Overwrite(row, args) == SignupItem(args)

\* PutItem with ConditionExpression attribute_not_exists(#pk): the row
\* after the call (an existing row fails the condition and stays).
createUserStateIfMissing(row, args) == IF row.exists THEN row ELSE SignupItem(args)

SignupRows == {NoRow, SignupRow("DISABLED"), StaleRow}

InitSignup ==
  /\ Quiet
  /\ usersState \in [Emails -> SignupRows]
  /\ authzState = [s \in Subs |-> ""]
  /\ authzCaps = [g \in {} |-> {}]
  /\ authzGrants = {}

\* handler(event) up to the PutItem request: the trigger test and the
\* email test return the event at once.
SignupBegin ==
  /\ lib.phase = "idle"
  /\ started < MaxRequests
  /\ started' = started + 1
  /\ \E triggerSource \in TriggerSources, emailRaw \in RawEmails :
       LET email == signupNormalizeEmail(emailRaw)
           acts == triggerSource = CONFIRM_SIGNUP /\ email # <<>>
       IN lib' = [op |-> "postConfirmation", phase |-> IF acts THEN "put" ELSE "done",
                  triggerSource |-> triggerSource, emailRaw |-> emailRaw,
                  email |-> IF triggerSource = CONFIRM_SIGNUP THEN email ELSE <<>>,
                  sent |-> FALSE, outcome |-> IF acts THEN "" ELSE "event",
                  now |-> started']
  /\ UNCHANGED <<avars, faults, authzState, authzCaps, authzGrants, rz>>

\* createUserStateIfMissing: the conditional PutItem is applied, refused by
\* its condition (swallowed by the catch) or fails otherwise (rethrown).
SignupPut ==
  /\ lib.op = "postConfirmation" /\ lib.phase = "put"
  /\ UNCHANGED <<idp, pc, req, loc, resp, started, authzState, authzCaps, authzGrants, rz>>
  /\ \/ /\ NoFault
        /\ usersState' = [usersState EXCEPT ![lib.email] =
                            createUserStateIfMissing(@, [state |-> "ACTIVE", actor |-> Signup,
                                                         reason |-> "SELF_SIGNUP",
                                                         now |-> lib.now])]
        /\ lib' = [lib EXCEPT !.phase = "done", !.sent = TRUE, !.outcome = "event"]
     \/ /\ CanFault /\ Fault
        /\ UNCHANGED usersState
        /\ lib' = [lib EXCEPT !.phase = "done", !.sent = TRUE, !.outcome = "error"]

NextSignup == SignupBegin \/ SignupPut \/ LibReturn

SpecSignup == InitSignup /\ [][NextSignup]_vars

\* ==================================================================== claims
Active(r) == pc[r] \notin {"idle", "done"}
InGate(r) == pc[r] = "gated" \/ (pc[r] \in {"ensPut", "ensUpd", "ensGet"} /\ loc[r].ret = "gated")
Target(r) == normalizeEmail(req[r].email)
Caller(r) == normalizeEmail(req[r].tok.email)

\* C1: a request under /admin/ whose caller's stored account state was
\* SUSPENDED or DISABLED when it arrived never gets past the ACTIVE gate:
\* it performs no identity-provider call and no write to a target's row, and
\* the only response it can get is a rejection.
C1_NonActiveCallerRejected ==
  [][\A r \in Slots :
       (Active(r) /\ loc[r].callerState \in {"SUSPENDED", "DISABLED"})
         => /\ InGate(r)
            /\ (pc'[r] = "done" => resp'[r].status \in {403, 500})
            /\ idp' = idp
            /\ \A e \in Emails \ {Caller(r)} : usersState'[e] = usersState[e]]_vars

\* C2: the state field of an existing account-state row changes only through
\* the row write of a PATCH /admin/users/state request (or of a creation) on
\* that user; the caller self-heal, the repair of GET /admin/users and the
\* group mirroring leave it as it was.
C2_StateChangedOnlyByTransition ==
  [][\A e \in Emails :
       (usersState[e].exists /\ usersState'[e].exists
          /\ usersState'[e].state # usersState[e].state)
         => \E r \in Slots : /\ req[r].route \in {"state", "create"}
                             /\ ~InGate(r)
                             /\ Target(r) = e]_vars

C4_FirstCallSelfHeals ==
  (rz.phase = "done" /\ rz.principal.present /\ rz.error # "StoreError"
     /\ rz.state = "")
    => IF rz.required
       THEN rz.outcome = "context" /\ authzState[rz.principal.userId] = "ACTIVE"
       ELSE rz.outcome = "context"

\* C5: in PATCH /admin/users/state to DISABLED or ACTIVE the row is written
\* only after the identity-provider call has completed, and when that call
\* fails the request fails and the target's stored state is the one it had
\* when the request arrived.
C5_IdpFailureKeepsState ==
  [][\A r \in Slots :
       /\ (pc[r] = "stIdp" /\ faults' # faults)
            => /\ pc'[r] = "done" /\ resp'[r].status = 500
               /\ StoredState(loc[r].email) = loc[r].prior
               /\ usersState' = usersState
       /\ (req[r].route = "state" /\ ~InGate(r) /\ usersState' # usersState
             /\ loc[r].state # "SUSPENDED")
            => idp[loc[r].email].enabled = (loc[r].state = "ACTIVE")]_vars

\* C6: whenever a PATCH /admin/users/state request has written the row, the
\* user's login capability at the identity provider is disabled exactly when
\* the stored state is DISABLED.
C6_LoginDisabledIffDisabled ==
  [][\A r \in Slots :
       (req[r].route = "state" /\ ~InGate(r) /\ pc[r] = "ensUpd"
          /\ usersState' # usersState)
         => (idp'[loc[r].email].enabled
               <=> usersState'[loc[r].email].state # "DISABLED")]_vars

\* The group set a PATCH /admin/users/groups body asks for, given the groups
\* the target holds now: set replaces, otherwise add then remove.
Named(v) == IF v.def THEN Range(v.val) \ {""} ELSE {}
ResultingGroups(r) ==
  LET t == Target(r)
      cur == IF t \in Emails /\ idp[t].exists THEN idp[t].groups ELSE {}
      b == req[r].body
  IN IF b.set.def THEN Named(b.set) ELSE (cur \cup Named(b.add)) \ Named(b.remove)
BodyNames(r) == Named(req[r].body.set) \cup Named(req[r].body.add) \cup Named(req[r].body.remove)
TargetExists(r) == Target(r) \in Emails /\ idp[Target(r)].exists
Finishes(r) == pc[r] # "done" /\ pc'[r] = "done" /\ faults' = faults

\* C7: a PATCH /admin/users/groups request whose target is the caller and
\* whose resulting group set lacks PlatformAdmin changes no group membership
\* and is answered 400; the same kind of request on another existing user
\* with valid group names is answered 200 unless a collaborator call fails.
C7_SelfLockoutRefused ==
  [][\A r \in Slots :
       (req[r].route = "groups" /\ Active(r) /\ ~InGate(r) /\ TargetExists(r))
         => /\ (Caller(r) = Target(r) /\ PLATFORM_ADMIN_GROUP \notin ResultingGroups(r))
                 => /\ idp' = idp
                    /\ Finishes(r) => resp'[r].status = 400
            /\ (Caller(r) # Target(r) /\ BodyNames(r) \subseteq Range(ROLE_GROUPS)
                  /\ Finishes(r))
                 => resp'[r].status = 200]_vars

C7_Witness ==
  \E r \in Slots :
     /\ pc[r] = "done" /\ req[r].route = "groups" /\ resp[r].status = 400
     /\ Caller(r) = Target(r) /\ BodyNames(r) \subseteq Range(ROLE_GROUPS)
     /\ PLATFORM_ADMIN_GROUP \notin ResultingGroups(r)
     /\ PLATFORM_ADMIN_GROUP \in idp[Target(r)].groups

\* C8: whenever POST /admin/users answers 201, the target's account-state row
\* exists with state ACTIVE, also when a stale row for that email was there.
C8_CreatedIsActive ==
  \A r \in Slots :
     (pc[r] = "done" /\ req[r].route = "create" /\ resp[r].status = 201)
       => /\ usersState[Target(r)].exists
          /\ usersState[Target(r)].state = "ACTIVE"

C10_LastAdminKept ==
  [][\A r \in Slots :
       (req[r].route = "delete" /\ Active(r) /\ TargetExists(r) /\ ~idp'[Target(r)].exists)
         => /\ Caller(r) # Target(r)
            /\ PLATFORM_ADMIN_GROUP \in idp[Target(r)].groups
                 => \E e \in Emails \ {Target(r)} :
                       idp[e].exists /\ PLATFORM_ADMIN_GROUP \in idp[e].groups]_vars

\* C11: for a caller without an account-state row, however its admin-gated
\* requests interleave: the row is created with state ACTIVE by the caller,
\* once it exists it keeps its creation fields and its ACTIVE state (one
\* winning create), no request ends at the gate unless a store call failed,
\* and every request that read the row at the gate saw ACTIVE.
C11_SingleWinningCreate ==
  [][/\ (~usersState[A].exists /\ usersState'[A].exists)
          => (usersState'[A].state = "ACTIVE" /\ usersState'[A].createdBy = A
              /\ usersState'[A].createdAt \in Slots)
     /\ usersState[A].exists
          => /\ usersState'[A].exists
             /\ usersState'[A].createdAt = usersState[A].createdAt
             /\ usersState'[A].createdBy = usersState[A].createdBy
             /\ usersState'[A].state = "ACTIVE"
     /\ \A r \in Slots :
          /\ (InGate(r) /\ pc'[r] = "done") => faults' > 0
          /\ (pc[r] = "gated" /\ faults = 0) => loc[r].rowState = "ACTIVE"]_vars

C11_Witness ==
  /\ \A r \in Slots : pc[r] = "done" /\ resp[r].status = 200 /\ loc[r].callerState = ""
  /\ usersState[A].exists /\ usersState[A].state = "ACTIVE"
  /\ usersState[A].createdAt = 2 /\ usersState[A].lastReason = "SELF_HEAL_CALLER"

\* C12: an /admin/ request passes principal extraction, the admin-group
\* check and the ACTIVE check in that order before its route runs: without a
\* subject claim it is answered 401 whatever its groups, with a subject but
\* without the admin group it is answered 403, in both cases in a step that
\* touches neither store; only a request whose gate read ACTIVE enters a route.
C12_GateOrder ==
  [][\A r \in Slots :
       /\ (pc[r] = "idle" /\ pc'[r] # "idle")
            => /\ idp' = idp /\ usersState' = usersState
               /\ IF req'[r].tok.sub = ""
                  THEN pc'[r] = "done" /\ resp'[r].status = 401
                       /\ resp'[r].error = "UNAUTHENTICATED"
                  ELSE IF PLATFORM_ADMIN_GROUP \notin Range(req'[r].tok.groups)
                  THEN pc'[r] = "done" /\ resp'[r].status = 403
                       /\ resp'[r].error = "FORBIDDEN"
                  ELSE pc'[r] = "done" \/ (pc'[r] = "ensPut" /\ loc'[r].ret = "gated")
       /\ (InGate(r) /\ pc'[r] \notin {"idle", "done"} /\ ~InGate(r)')
            => (pc[r] = "gated" /\ loc[r].rowState = "ACTIVE")
       /\ Active(r)
            => (req[r].tok.sub # "" /\ PLATFORM_ADMIN_GROUP \in Range(req[r].tok.groups))]_vars

C12_Witness ==
  \E r \in Slots :
     /\ pc[r] = "done" /\ resp[r].status = 403 /\ resp[r].error = "FORBIDDEN"
     /\ req[r].tok = TokSeller /\ req[r].route = "delete"
     /\ started = 1 /\ faults = 0

\* C13: a request rejected at the gate because its caller is not ACTIVE is
\* answered 403, and one rejected because its principal has no usable email
\* is answered 401; neither is answered 500.
C13_GateStatusCodes ==
  [][\A r \in Slots :
       /\ (pc[r] = "gated" /\ pc'[r] = "done") => resp'[r].status = 403
       /\ (pc[r] = "idle" /\ pc'[r] = "done" /\ req'[r].tok.sub # ""
             /\ PLATFORM_ADMIN_GROUP \in Range(req'[r].tok.groups))
            => resp'[r].status = 401]_vars

\* C14: a resolution whose bearer token the verifier rejects, for whatever
\* reason, ends in an error answered 401, and a required resolution without
\* an Authorization bearer ends in UnauthorizedError answered 401.
C14_VerifierFailureIs401 ==
  rz.phase = "done" =>
    /\ (extractBearer(rz.header) # "" /\ ~Verifies(extractBearer(rz.header)))
         => (rz.outcome = "error" /\ rz.status = 401)
    /\ (extractBearer(rz.header) = "" /\ rz.required)
         => (rz.outcome = "error" /\ rz.error = "UnauthorizedError" /\ rz.status = 401)

\* C15: auth-context resolution is fail-closed: a step in which one of the
\* three lookups fails ends the resolution with an error, and every context
\* returned for a principal carries the stored state, the groups' whole
\* capability union and all of the principal's grants.
C15_FailClosed ==
  [][/\ faults' > faults
          => (rz.principal.present /\ rz'.phase = "done" /\ rz'.outcome = "error"
              /\ rz'.error = "StoreError")
     /\ (rz'.phase = "done" /\ rz'.outcome = "context" /\ rz'.principal.present)
          => /\ rz'.state = authzState[rz'.principal.userId]
             /\ rz'.capabilities = resolveCapabilities(rz'.principal.groups)
             /\ rz'.grants = resolveGrants(rz'.principal.userId)
             /\ faults' = faults]_vars

C15_Witness ==
  /\ rz.phase = "done" /\ rz.outcome = "error" /\ rz.error = "StoreError"
  /\ ~rz.required /\ rz.principal.present /\ faults = 1
  /\ rz.state = "ACTIVE" /\ rz.capabilities # {} /\ rz.grants = {}
  /\ resolveGrants(rz.principal.userId) # {}

\* C16: resolveCapabilities returns exactly the capabilities found in some
\* listed group's record; a listed group without a record contributes nothing
\* and causes no error; an empty group list returns the empty set without a
\* request to the store.
C16_CapabilityUnion ==
  (lib.op = "resolveCapabilities" /\ lib.phase = "done") =>
    /\ lib.groups = <<>> => (~lib.sent /\ lib.outcome = "value" /\ lib.value = {})
    /\ lib.outcome = "value"
         => \A c \in UNION CapSets :
               c \in lib.value <=> \E i \in DOMAIN lib.groups :
                                      /\ lib.groups[i] \in DOMAIN authzCaps
                                      /\ c \in authzCaps[lib.groups[i]]
    /\ lib.outcome = "value" => lib.value \subseteq UNION CapSets
    /\ lib.outcome = "error" => faults > 0

C16_Witness ==
  /\ lib.op = "resolveCapabilities" /\ lib.phase = "done" /\ lib.outcome = "value"
  /\ lib.groups = <<"G1", "G3", "G2">>
  /\ DOMAIN authzCaps = {"G1", "G2"}
  /\ authzCaps["G1"] = {"a", "b"} /\ authzCaps["G2"] = {"b", "c"}
  /\ lib.value = {"a", "b", "c"} /\ faults = 0

\* C17: hasGrant answers true exactly when the grants table holds an item in
\* the principal's own partition whose sort key begins with the prefix; a
\* grant on store 42 does not answer a query for store 43, and another
\* principal's grant answers nothing.
C17_HasGrantIffPrefixMatch ==
  (lib.op = "hasGrant" /\ lib.phase = "done") =>
    /\ lib.outcome = "value"
         => (lib.value <=>
               \E item \in authzGrants :
                  /\ item.userId = lib.principal.sub
                  /\ Len(lib.prefix) <= Len(item.sk)
                  /\ \A i \in 1..Len(lib.prefix) : item.sk[i] = lib.prefix[i])
    /\ lib.outcome # "value" => (lib.error = "StoreError" /\ faults > 0)

C17_Witness ==
  /\ lib.op = "hasGrant" /\ lib.phase = "done" /\ lib.outcome = "value"
  /\ lib.principal = TokA /\ lib.prefix = OwnerSkPrefix(<<"4", "3">>)
  /\ authzGrants = {GrantItem("sub-a", <<"4", "2">>, "OWNER"),
                    GrantItem("sub-b", <<"4", "3">>, "OWNER")}
  /\ lib.value = FALSE

C19_SameSetForEveryForm ==
  (lib.op = "normalizeGroups" /\ lib.phase = "done") =>
    /\ \A i \in DOMAIN lib.value :
         /\ lib.value[i] # <<>>
         /\ lib.value[i][1] # " "
         /\ lib.value[i][Len(lib.value[i])] # " "
    /\ lib.kind \in {"array", "json", "jsonSpaced", "comma"}
         => Range(lib.value) = {trim(lib.names[i]) : i \in DOMAIN lib.names} \ {<<>>}
    /\ lib.kind = "absent" => lib.value = <<>>

C19_Witness ==
  /\ lib.op = "normalizeGroups" /\ lib.phase = "done"
  /\ lib.kind = "comma" /\ lib.names = << <<"A", " ">>, <<"B">> >>
  /\ lib.v.str = <<"A", " ", ",", "B">>
  /\ lib.value = << <<"A">>, <<"B">> >>

\* C20: the post-confirmation handler creates a row only where none exists,
\* only for the confirmed-signup trigger and only under the trimmed,
\* lower-cased email, with state ACTIVE; a row that exists keeps every field
\* and the handler then returns without error; for another trigger or a
\* missing or invalid email the handler returns without a write request.
C20_SignupCreatesOnlyIfMissing ==
  [][/\ \A e \in Emails :
          /\ usersState[e].exists => usersState'[e] = usersState[e]
          /\ (~usersState[e].exists /\ usersState'[e].exists)
               => /\ lib.triggerSource = CONFIRM_SIGNUP
                  /\ e = toLowerCase(trim(lib.emailRaw))
                  /\ usersState'[e].state = "ACTIVE"
                  /\ usersState'[e].createdBy = Signup
                  /\ usersState'[e].lastReason = "SELF_SIGNUP"
     /\ (lib.phase = "put" /\ lib'.phase = "done" /\ faults' = faults)
          => /\ lib'.outcome = "event"
             /\ usersState'[lib.email].exists
     /\ (lib.phase = "idle" /\ lib'.phase # "idle"
           /\ (lib'.triggerSource # CONFIRM_SIGNUP \/ "@" \notin Range(lib'.emailRaw)))
          => (lib'.phase = "done" /\ lib'.outcome = "event" /\ ~lib'.sent
              /\ usersState' = usersState)]_vars

C20_Witness ==
  /\ lib.op = "postConfirmation" /\ lib.phase = "done" /\ lib.outcome = "event"
  /\ lib.sent /\ lib.emailRaw = <<" ", "B", "@", "x">> /\ lib.now = 2
  /\ usersState[B] = SignupRow("DISABLED")
  /\ usersState[A].exists /\ usersState[A].createdAt = 1
  /\ usersState[A].state = "ACTIVE" /\ usersState[A].createdBy = Signup

\* C21: a PATCH /admin/users/state request is answered 200 only when the
\* target's stored state is the requested one; a failed write of the new
\* state is answered as a failure.
C21_StateWriteFailureReported ==
  \A r \in Slots :
     (pc[r] = "done" /\ req[r].route = "state" /\ resp[r].status = 200)
       => /\ usersState[Target(r)].exists
          /\ usersState[Target(r)].state = normalizeState(req[r].state)

Validating == {"crFind", "grFind", "grList", "stFind", "dlFind", "dlCheck"}

C24_MirrorFailureNotFatal ==
  [][\A r \in Slots :
       (req[r].route = "groups" /\ ~InGate(r) /\ pc[r] \in {"ensPut", "ensUpd", "ensGet"})
         => /\ faults' > faults => ~(pc'[r] = "done" /\ resp'[r].status # 200)
            /\ usersState[loc[r].ens.email].exists
                 => usersState'[loc[r].ens.email].state = usersState[loc[r].ens.email].state]_vars

\* C25: DELETE /admin/users deletes the user at the identity provider first
\* and the row second: the row goes away only in the step after the provider
\* deletion; that step answers 200 whether or not the row deletion failed; a
\* failed provider deletion ends the request with an error and changes neither
\* the provider nor the row.
C25_DeleteOrder ==
  [][\A r \in Slots :
       (req[r].route = "delete" /\ ~InGate(r) /\ Active(r))
         => /\ (usersState' # usersState)
                 => /\ pc[r] = "dlRow"
                    /\ ~idp[loc[r].email].exists
                    /\ usersState' = [usersState EXCEPT ![loc[r].email] = NoRow]
            /\ pc[r] = "dlRow" => (pc'[r] = "done" /\ resp'[r].status = 200)
            /\ (idp' # idp) => (pc[r] = "dlDelete" /\ pc'[r] = "dlRow")
            /\ (pc[r] = "dlDelete" /\ faults' > faults)
                 => /\ pc'[r] = "done" /\ resp'[r].status >= 500
                    /\ idp' = idp /\ usersState' = usersState]_vars

C25_Witness ==
  \E r \in Slots :
     /\ pc[r] = "done" /\ resp[r].status = 200 /\ req[r].route = "delete"
     /\ faults = 1 /\ started = 1
     /\ ~idp[B].exists /\ usersState[B].exists
     /\ Target(r) = B

C27_CapabilityGateAnswers ==
  (pc[1] = "done" /\ rz.phase = "done" /\ rz.outcome = "context" /\ rz.required)
    => resp[1].status = IF "admin" \in rz.capabilities THEN 200 ELSE 403

\* C28: no step of a PATCH /admin/users/groups or DELETE /admin/users
\* request takes the PlatformAdmin group from its last holder at the
\* identity provider: if some user holds the group before the step, some
\* user holds it after.
SomeAdmin(pool) ==
  \E e \in Emails : pool[e].exists /\ PLATFORM_ADMIN_GROUP \in pool[e].groups

C28_AdminNeverLost ==
  [][\A r \in Slots :
       (req[r].route \in {"groups", "delete"} /\ pc[r] # pc'[r] /\ SomeAdmin(idp))
         => SomeAdmin(idp')]_vars

\* C29: when the first two POST /admin/users requests, both for the new email
\* c@x, have both been answered and no collaborator call failed, one answer
\* is 201 and the other 409, the user exists once at the identity provider
\* and its row is ACTIVE.
C29_OneCreatedOneConflict ==
  (pc[1] = "done" /\ pc[2] = "done" /\ started = 2 /\ faults = 0
     /\ req[1].route = "create" /\ req[2].route = "create"
     /\ Target(1) = C /\ Target(2) = C)
    => /\ {resp[1].status, resp[2].status} = {201, 409}
       /\ idp[C].exists
       /\ usersState[C].exists /\ usersState[C].state = "ACTIVE"

\* C30: the admin router's normalizeGroups gives the same set of names for a
\* list of names, for its JSON text and for its comma-separated text, namely
\* the trimmed non-empty names; and the JSON text of a list of role-group
\* names has no invalid entry.
C30_RouterSameSetForEveryForm ==
  (lib.op = "adminNormalizeGroups" /\ lib.phase = "done") =>
    /\ lib.kind \in {"array", "json", "comma"}
         => Range(lib.value) = {trim(lib.names[i]) : i \in DOMAIN lib.names} \ {<<>>}
    /\ (lib.kind = "json" /\ \A i \in DOMAIN lib.names : lib.names[i] \in RoleNames)
         => lib.invalid = <<>>

====
